---- MODULE Spec2Model ----
(***************************************************************************)
(* Model of cmd/compose/selfupdate.go: the selfupdate command of           *)
(* docker-compose.  One run of runSelfUpdate is a sequential program; the  *)
(* actions below are its steps, cut at the points where it talks to the    *)
(* environment (HTTP server, filesystem, runtime constants).               *)
(***************************************************************************)
EXTENDS Integers, Sequences, FiniteSets, TLC

VARIABLES
    pc,                 \* position of the run inside runSelfUpdate
    result,             \* how the run ended: running / fatal / panic / returned
    opts,               \* selfUpdateOptions {unstable, quiet}
    host,               \* the platform the binary was built for
    exeInCwd,           \* whether the running executable lives in the working directory
    fs,                 \* the filesystem: top-level path -> node
    feedResp,           \* the answer of the release feed to requestJson
    versions,           \* []VersionResponse after json.Unmarshal
    nextVersion,        \* semver of versions[0].TagName
    assetSuffix,        \* result of matchArchitecture
    binResp,            \* the answer of the server to the binary download
    shaResp,            \* the answer of the server to the checksum download
    sumsEqual,          \* outcome of the comparison on line 153
    requests,           \* HTTP requests issued so far, in order
    renames,            \* os.Rename calls made so far, in order, with their outcome
    out,                \* lines printed by fmt.Println / fmt.Printf / log.Fatal
    sumPrefix,          \* the value of downloadedSum[:64] on line 153, and how far it reached
    assets,             \* searchAssets, searchAssetUrl: the asset list passed in
    needle,             \* searchAssets, searchAssetUrl: the name looked for
    call,               \* searchAssets, searchAssetUrl: the last call and its outcome
    runs,               \* concurrent invocations: position and temp file of each
    events              \* concurrent invocations: the renames made, in order

\* the variables of a single run of runSelfUpdate
runVars == <<pc, result, opts, host, feedResp, versions, nextVersion,
             assetSuffix, binResp, shaResp, sumsEqual, requests, renames, out, sumPrefix>>

\* the variables of the calls of the asset search
searchVars == <<assets, needle, call>>

\* the variables of concurrent invocations
raceVars == <<runs, events>>

vars == <<runVars, exeInCwd, fs, searchVars, raceVars>>

(***************************************************************************)
(* Bounds of the model.                                                    *)
(***************************************************************************)
MaxVer == 3        \* major, minor and patch of a feed tag range over 1..MaxVer
MaxByte == 1       \* bytes of a downloaded binary range over 0..MaxByte

(***************************************************************************)
(* Small helpers.                                                          *)
(***************************************************************************)
Max(a, b) == IF a >= b THEN a ELSE b

SeqsUpTo(S, n) == UNION {[1..k -> S] : k \in 0..n}

(***************************************************************************)
(* Semantic versions (github.com/Masterminds/semver as used on lines 92,   *)
(* 99 and 104).  A pre-release is a sequence of identifiers; an identifier *)
(* is numeric or alphanumeric (val is then its rank in lexical order).     *)
(***************************************************************************)
NumId(n) == [num |-> TRUE, val |-> n]
AlphaId(n) == [num |-> FALSE, val |-> n]

compareSegment(v, o) == IF v < o THEN -1 ELSE IF v > o THEN 1 ELSE 0

\* one dot-separated part of a pre-release: numeric sorts before alphanumeric
comparePrePart(s, o) ==
    IF s = o THEN 0
    ELSE IF s.num /\ ~o.num THEN -1
    ELSE IF ~s.num /\ o.num THEN 1
    ELSE compareSegment(s.val, o.val)

RECURSIVE comparePrerelease(_, _)
comparePrerelease(v, o) ==
    IF v = <<>> /\ o = <<>> THEN 0
    ELSE IF v = <<>> THEN -1
    ELSE IF o = <<>> THEN 1
    ELSE LET d == comparePrePart(Head(v), Head(o))
         IN IF d # 0 THEN d ELSE comparePrerelease(Tail(v), Tail(o))

\* Version.Compare: major, minor, patch, then pre-release precedence
Compare(v, o) ==
    IF compareSegment(v.major, o.major) # 0 THEN compareSegment(v.major, o.major)
    ELSE IF compareSegment(v.minor, o.minor) # 0 THEN compareSegment(v.minor, o.minor)
    ELSE IF compareSegment(v.patch, o.patch) # 0 THEN compareSegment(v.patch, o.patch)
    ELSE IF v.pre = <<>> /\ o.pre = <<>> THEN 0
    ELSE IF v.pre = <<>> THEN 1
    ELSE IF o.pre = <<>> THEN -1
    ELSE comparePrerelease(v.pre, o.pre)

LessThan(v, o) == Compare(v, o) < 0
GreaterThan(v, o) == Compare(v, o) > 0

Ver(ma, mi, pa, pre) == [major |-> ma, minor |-> mi, patch |-> pa, pre |-> pre]

NoVersion == Ver(0, 0, 0, <<>>)

\* A tag of the feed: either a string that is no semantic version, or a
\* version written with or without the leading "v".
Tag(valid, v, ver) == [valid |-> valid, v |-> v, ver |-> ver]
InvalidTag == Tag(FALSE, FALSE, NoVersion)

\* semver.NewVersion: drops the "v" prefix, fails on anything else
NewVersion(tag) ==
    IF tag.valid THEN [err |-> FALSE, ver |-> tag.ver]
    ELSE [err |-> TRUE, ver |-> NoVersion]

\* line 90: version := "2.2.2"
version == Tag(TRUE, FALSE, Ver(2, 2, 2, <<>>))

PreReleases == {<<>>, <<AlphaId(1), NumId(1)>>}

\* every release vMA.MI.PA, the pre-releases of the vMA.MI.2 ones, the running
\* version written without the "v", and a tag that is no version
Tags ==
    {InvalidTag} \cup
    {Tag(TRUE, TRUE, Ver(ma, mi, pa, <<>>)) :
        ma \in 1..MaxVer, mi \in 1..MaxVer, pa \in 1..MaxVer}
    \cup {Tag(TRUE, TRUE, Ver(ma, mi, version.ver.patch, pre)) :
        ma \in 1..MaxVer, mi \in 1..MaxVer, pre \in PreReleases}
    \cup {Tag(TRUE, FALSE, version.ver)}

(***************************************************************************)
(* matchArchitecture (lines 227-252).                                      *)
(***************************************************************************)
\* runtime.GOARCH of a platform: 32-bit ARM builds all report "arm", the
\* variant (v6, v7) is the GOARM build setting and is not part of GOARCH.
GOARCH(h) == IF h.arch \in {"arm/v6", "arm/v7"} THEN "arm" ELSE h.arch
GOOS(h) == h.os

\* matchArchitecture with a fallback for Linux: every architecture it does not
\* know gets the x86_64 asset
matchArchitectureLinuxFallback(h) ==
    IF GOOS(h) = "darwin" /\ GOARCH(h) = "arm64" THEN [err |-> FALSE, suffix |-> "darwin-aarch64"]
    ELSE IF GOOS(h) = "linux" /\ GOARCH(h) = "s390x" THEN [err |-> FALSE, suffix |-> "linux-s390x"]
    ELSE IF GOOS(h) = "linux" /\ GOARCH(h) = "arm64" THEN [err |-> FALSE, suffix |-> "linux-aarch64"]
    ELSE IF GOOS(h) = "linux" THEN [err |-> FALSE, suffix |-> "linux-x86_64"]
    ELSE [err |-> TRUE, suffix |-> ""]

matchArchitecture(h) ==
    LET ok(s) == [err |-> FALSE, suffix |-> s]
    IN IF GOOS(h) = "darwin" /\ GOARCH(h) = "arm64" THEN ok("darwin-aarch64")
       ELSE IF GOOS(h) = "darwin" /\ GOARCH(h) = "x86_64" THEN ok("darwin-x86_64")
       ELSE IF GOOS(h) = "linux" /\ GOARCH(h) = "s390x" THEN ok("linux-s390x")
       ELSE IF GOOS(h) = "linux" /\ GOARCH(h) = "arm64" THEN ok("linux-aarch64")
       ELSE IF GOOS(h) = "linux" /\ GOARCH(h) = "" THEN ok("linux-armv6")
       ELSE IF GOOS(h) = "linux" /\ GOARCH(h) = "" THEN ok("linux-armv7")
       ELSE IF GOOS(h) = "linux" /\ GOARCH(h) = "amd64" THEN ok("linux-x86_64")
       ELSE IF GOOS(h) = "windows" /\ GOARCH(h) = "x86_64" THEN ok("windows-x86_64")
       ELSE [err |-> TRUE, suffix |-> ""]

Platform(os, arch) == [os |-> os, arch |-> arch]

Hosts == {Platform(os, arch) :
            os \in {"darwin", "linux", "windows", "plan9"},
            arch \in {"amd64", "arm64", "s390x", "arm/v6", "arm/v7", "386"}}

(***************************************************************************)
(* Bytes, digests and hex encoding (lines 147-153).                        *)
(***************************************************************************)
Bytes == 0..MaxByte

\* the bodies a server may send for the binary: nothing, or one byte
BinBodies == SeqsUpTo(Bytes, 1)

\* a numbering of byte sequences, injective on the short ones
RECURSIVE Code(_)
Code(c) == IF c = <<>> THEN 0 ELSE ((Head(c) + 1) + 257 * Code(Tail(c))) % 8388593

\* sha256.Sum256: 32 bytes.  The digest is a stand-in that, like SHA-256 in
\* practice, has no collision among the contents of the model: its first four
\* bytes spell Code(c), the others are mixed from it.
Sum256(c) ==
    [i \in 1..32 |->
        IF i = 1 THEN Code(c) % 256
        ELSE IF i = 2 THEN (Code(c) \div 256) % 256
        ELSE IF i = 3 THEN (Code(c) \div 65536) % 256
        ELSE IF i = 4 THEN (Code(c) \div 16777216) % 256
        ELSE (Code(c) * i + 31 * i) % 256]

\* hextable = "0123456789abcdef", as ASCII codes
HexChar(d) == IF d < 10 THEN 48 + d ELSE 87 + d

\* hex.EncodeToString: two lowercase hex characters for every byte
EncodeToString(b) ==
    [i \in 1..(2 * Len(b)) |->
        IF i % 2 = 1 THEN HexChar(b[(i + 1) \div 2] \div 16)
        ELSE HexChar(b[i \div 2] % 16)]

\* os.ReadFile returns a slice whose capacity is the file size plus one and
\* never less than 512
ReadFileCap(data) == Max(Len(data) + 1, 512)

\* downloadedSum[:64]: a slice expression is bounded by the capacity, not by
\* the length; the bytes between length and capacity are zero
SliceOutOfRange(data) == 64 > ReadFileCap(data)
Slice64(data) == [i \in 1..64 |-> IF i <= Len(data) THEN data[i] ELSE 0]

\* the comparison without the [:64]: the digest against the whole checksum file
SumsDifferWholeFile(binaryFileContent, downloadedSum) ==
    EncodeToString(Sum256(binaryFileContent)) # downloadedSum

\* what line 153 got from downloadedSum[:64]: the bytes, and the index of the
\* last byte read
SlicePrefix(data) == [bytes |-> Slice64(data), upto |-> 64]
NoPrefix == [bytes |-> <<>>, upto |-> 0]

\* line 153: hex.EncodeToString(computedSum[:]) != string(downloadedSum[:64])
SumsDiffer(binaryFileContent, downloadedSum) ==
    EncodeToString(Sum256(binaryFileContent)) # Slice64(downloadedSum)

\* "  docker-compose\n" shortened to "  d\n": what follows the digest in a
\* checksum file
Trailer == <<32, 32, 100, 10>>
\* "Not Found"
NotFoundBody == <<78, 111, 116, 32, 70, 111, 117, 110, 100>>

HexSum(c) == EncodeToString(Sum256(c))

\* the bodies a server may send for the checksum file
ShaBodies ==
    {HexSum(c) \o Trailer : c \in BinBodies}
    \cup {<<>>, SubSeq(HexSum(<<>>), 1, 63)}

(***************************************************************************)
(* The filesystem.  A node is absent, a file with its bytes, or a          *)
(* directory with its entries (files).  A path is <<top>> or <<top, name>>.*)
(***************************************************************************)
Absent == [kind |-> "absent", data |-> <<>>, entries |-> {}]
File(d) == [kind |-> "file", data |-> d, entries |-> {}]
Dir(es) == [kind |-> "dir", data |-> <<>>, entries |-> es]
Entry(n, d) == [name |-> n, data |-> d]

TopPaths == {"exe", "exe_old", "exe_tmp", "cwd", "cwd_old", "cwd_tmp", "tmp/sha"}

Lookup(f, p) ==
    IF Len(p) = 1 THEN f[p[1]]
    ELSE LET d == f[p[1]]
         IN IF d.kind = "dir" /\ \E e \in d.entries : e.name = p[2]
            THEN File((CHOOSE e \in d.entries : e.name = p[2]).data)
            ELSE Absent

Exists(f, p) == Lookup(f, p).kind # "absent"

Remove(f, p) ==
    IF Len(p) = 1 THEN [f EXCEPT ![p[1]] = Absent]
    ELSE [f EXCEPT ![p[1]].entries = {e \in @ : e.name # p[2]}]

\* put a file or a directory at a top-level path, a file into a directory
Put(f, p, node) ==
    IF Len(p) = 1 THEN [f EXCEPT ![p[1]] = node]
    ELSE [f EXCEPT ![p[1]].entries =
             {e \in @ : e.name # p[2]} \cup {Entry(p[2], node.data)}]

ParentExists(f, p) == Len(p) = 1 \/ f[p[1]].kind = "dir"

\* rename(2): the node at from moves to to; the source must exist, and a
\* directory replaces only an empty directory, a file only a file
RenameErrno(f, from, to) ==
    LET src == Lookup(f, from)
        dst == Lookup(f, to)
    IN IF src.kind = "absent" \/ ~ParentExists(f, to) THEN "ENOENT"
       ELSE IF src.kind = "dir" /\ dst.kind = "file" THEN "ENOTDIR"
       ELSE IF src.kind = "dir" /\ dst.kind = "dir" /\ dst.entries # {} THEN "ENOTEMPTY"
       ELSE IF src.kind = "file" /\ dst.kind = "dir" THEN "EISDIR"
       ELSE ""

\* os.Rename(from, to); fault is a failure the filesystem reports for a
\* reason of its own (permissions, busy mount point, read-only volume)
Rename(f, from, to, fault) ==
    IF fault THEN [err |-> "EACCES", fs |-> f]
    ELSE IF RenameErrno(f, from, to) # "" THEN [err |-> RenameErrno(f, from, to), fs |-> f]
    ELSE [err |-> "", fs |-> Put(Remove(f, from), to, Lookup(f, from))]

\* path + suffix, as in currentBinaryPath+"_old"
AddSuffix(p, s) == [p EXCEPT ![Len(p)] = @ \o s]

\* the bytes of the executable before the run
OldBinary == <<255>>
ExeName == "docker-compose"

\* where the running executable is
ExePath == IF exeInCwd THEN <<"cwd", ExeName>> ELSE <<"exe">>

\* line 115: os.Getwd()
currentBinaryPath == <<"cwd">>
\* line 122: ioutil.TempFile(currentBinaryPath, "docker-compose-")
binaryFilePath == <<"cwd", "docker-compose-1">>
\* line 132: ioutil.TempFile(os.TempDir(), "docker-compose-*.sha256")
binarySHAFile == <<"tmp/sha">>

InitFs(inCwd) ==
    [p \in TopPaths |->
        IF p = "cwd" THEN Dir(IF inCwd THEN {Entry(ExeName, OldBinary)} ELSE {})
        ELSE IF p = "exe" /\ ~inCwd THEN File(OldBinary)
        ELSE Absent]

(***************************************************************************)
(* What the servers may answer.                                            *)
(***************************************************************************)
\* a release of the feed (VersionResponse, lines 40-45)
VersionResponse(tag) == [TagName |-> tag]

\* the body of the feed, as json.Unmarshal sees it
Json(kind, rs) == [json |-> kind, releases |-> rs]
NilBody == Json("nil", <<>>)

\* 2.3.1-rc.1, a pre-release newer than the running version
NewerPreRelease == Tag(TRUE, TRUE, Ver(2, 3, 1, <<AlphaId(1), NumId(1)>>))
\* 2.3.1, a release newer than the running version
NewerRelease == Tag(TRUE, TRUE, Ver(2, 3, 1, <<>>))

FeedLists ==
    {<<>>} \cup {<<VersionResponse(t)>> : t \in Tags}
    \cup {<<VersionResponse(NewerPreRelease), VersionResponse(version)>>}

FeedBodies ==
    {Json("malformed", <<>>), Json("object", <<>>), Json("null", <<>>)}
    \cup {Json("array", rs) : rs \in FeedLists}

\* what comes with a non-success status: an error object, or a list all the same
FeedErrorBodies == {Json("object", <<>>), Json("array", <<VersionResponse(NewerRelease)>>)}

Response(kind, status, body) == [kind |-> kind, status |-> status, body |-> body]

FeedResponses ==
    {Response("transport_error", 0, NilBody), Response("read_error", 200, NilBody),
     Response("no_response", 0, NilBody)}
    \cup {Response("response", 200, b) : b \in FeedBodies}
    \cup {Response("response", 404, b) : b \in FeedErrorBodies}

\* for a download, the body is what reached the client: all of it, or, when
\* copying broke off (copy_error), nothing; no_response is a server that
\* accepts the connection and never answers
DownloadResponses(bodies) ==
    {Response("transport_error", 0, <<>>), Response("copy_error", 200, <<>>),
     Response("no_response", 0, <<>>)}
    \cup {Response("response", 200, b) : b \in bodies}
    \cup {Response("response", 404, NotFoundBody)}

NoFeedResponse == Response("none", 0, NilBody)
NoResponse == Response("none", 0, <<>>)

(***************************************************************************)
(* requestJson (lines 200-225) and json.Unmarshal (line 85).               *)
(***************************************************************************)
\* the status of the response is not looked at
requestJson(resp) ==
    IF resp.kind = "transport_error" THEN [body |-> NilBody, err |-> TRUE]
    \* http.Client{Timeout: 30 * time.Second}: client.Do gives up with an error
    ELSE IF resp.kind = "no_response" THEN [body |-> NilBody, err |-> TRUE]
    ELSE IF resp.kind = "read_error" THEN [body |-> NilBody, err |-> TRUE]
    ELSE [body |-> resp.body, err |-> FALSE]

\* json.Unmarshal(body, &versions): a JSON array fills the slice, null
\* leaves it nil, anything else (no input, no JSON, an object) is an error
Unmarshal(body) ==
    IF body.json = "array" THEN [versions |-> body.releases, err |-> FALSE]
    ELSE IF body.json = "null" THEN [versions |-> <<>>, err |-> FALSE]
    ELSE [versions |-> <<>>, err |-> TRUE]

\* downloadFile (lines 182-198): the error it returns; the status of the
\* response is not looked at
downloadFile(resp) == resp.kind \in {"transport_error", "copy_error"}

\* line 184: http.Get uses http.DefaultClient, which has no timeout: with a
\* server that never answers the call does not return
downloadFileBlocks(resp) == resp.kind = "no_response"

(***************************************************************************)
(* The run.                                                                *)
(***************************************************************************)
\* no call of the asset search made
NoCall == [fn |-> "", outcome |-> "", index |-> 0, url |-> ""]

Init ==
    /\ pc = "start"
    /\ result = "running"
    /\ opts \in [unstable : BOOLEAN, quiet : BOOLEAN]
    /\ host \in Hosts
    /\ exeInCwd \in BOOLEAN
    /\ fs = InitFs(exeInCwd)
    /\ feedResp = NoFeedResponse
    /\ versions = <<>>
    /\ nextVersion = NoVersion
    /\ assetSuffix = ""
    /\ binResp = NoResponse
    /\ shaResp = NoResponse
    /\ sumsEqual = "unknown"
    /\ requests = <<>>
    /\ renames = <<>>
    /\ out = <<>>
    /\ sumPrefix = NoPrefix
    /\ assets = <<>>
    /\ needle = ""
    /\ call = NoCall
    /\ runs = <<>>
    /\ events = <<>>

\* log.Fatal: print and os.Exit(1); nothing is cleaned up
Fatal(o) ==
    /\ pc' = "exit"
    /\ result' = "fatal"
    /\ out' = Append(o, "fatal")

\* a run-time panic (index or slice bounds out of range)
Panic(o) ==
    /\ pc' = "exit"
    /\ result' = "panic"
    /\ out' = Append(o, "panic")

\* lines 78-88
RequestFeed ==
    /\ pc = "start"
    /\ \E r \in FeedResponses :
        LET o == Append(out, "Checking for new docker-compose version ...")
            u == Unmarshal(requestJson(r).body)
        IN /\ feedResp' = r
           /\ requests' = Append(requests, "feed")
           /\ IF u.err
              THEN Fatal(o) /\ UNCHANGED versions
              ELSE /\ versions' = u.versions
                   /\ pc' = "version"
                   /\ out' = o
                   /\ UNCHANGED result
    /\ UNCHANGED <<opts, host, exeInCwd, fs, nextVersion, assetSuffix, binResp,
                   shaResp, sumsEqual, renames>>
    /\ UNCHANGED <<searchVars, raceVars>>
    /\ UNCHANGED sumPrefix

\* lines 90-107
CheckVersion ==
    /\ pc = "version"
    /\ LET currentVersion == NewVersion(version)
       IN IF currentVersion.err
          THEN Fatal(out) /\ UNCHANGED nextVersion
          ELSE IF Len(versions) = 0
          THEN Panic(out) /\ UNCHANGED nextVersion
          ELSE LET o == Append(out, "Latest tag is")
                   nv == NewVersion(versions[1].TagName)
               IN IF nv.err
                  THEN Fatal(o) /\ UNCHANGED nextVersion
                  ELSE /\ nextVersion' = nv.ver
                       /\ IF LessThan(nv.ver, currentVersion.ver)
                          THEN /\ out' = Append(o, "Latest version is already installed")
                               /\ pc' = "done"
                               /\ result' = "current"
                          ELSE /\ out' = o
                               /\ pc' = "match"
                               /\ UNCHANGED result
    /\ UNCHANGED <<opts, host, exeInCwd, fs, feedResp, versions, assetSuffix,
                   binResp, shaResp, sumsEqual, requests, renames>>
    /\ UNCHANGED <<searchVars, raceVars>>
    /\ UNCHANGED sumPrefix

\* lines 109-113
ResolveAsset ==
    /\ pc = "match"
    /\ LET m == matchArchitecture(host)
       IN IF m.err
          THEN Fatal(out) /\ UNCHANGED assetSuffix
          ELSE /\ assetSuffix' = m.suffix
               /\ pc' = "tempfile"
               /\ UNCHANGED <<result, out>>
    /\ UNCHANGED <<opts, host, exeInCwd, fs, feedResp, versions, nextVersion,
                   binResp, shaResp, sumsEqual, requests, renames>>
    /\ UNCHANGED <<searchVars, raceVars>>
    /\ UNCHANGED sumPrefix

\* lines 115-125: os.Getwd and the temp file for the binary, created empty
\* in the working directory; either may fail
CreateBinaryFile ==
    /\ pc = "tempfile"
    /\ \E getwdErr \in BOOLEAN, tempErr \in BOOLEAN :
        IF getwdErr \/ tempErr
        THEN Fatal(out) /\ UNCHANGED fs
        ELSE /\ fs' = Put(fs, binaryFilePath, File(<<>>))
             /\ pc' = "download"
             /\ UNCHANGED <<result, out>>
    /\ UNCHANGED <<opts, host, exeInCwd, feedResp, versions, nextVersion,
                   assetSuffix, binResp, shaResp, sumsEqual, requests, renames>>
    /\ UNCHANGED <<searchVars, raceVars>>
    /\ UNCHANGED sumPrefix

\* lines 127-130: downloadFile(binaryFileUrl, binaryFilePath)
DownloadBinary ==
    /\ pc = "download"
    /\ \E r \in DownloadResponses(BinBodies) :
        /\ binResp' = r
        /\ requests' = Append(requests, "binary")
        /\ fs' = Put(fs, binaryFilePath, File(r.body))
        /\ IF downloadFileBlocks(r)
           THEN pc' = "blocked" /\ UNCHANGED <<result, out>>
           ELSE IF downloadFile(r)
           THEN Fatal(out)
           ELSE pc' = "shafile" /\ UNCHANGED <<result, out>>
    /\ UNCHANGED <<opts, host, exeInCwd, feedResp, versions, nextVersion,
                   assetSuffix, shaResp, sumsEqual, renames>>
    /\ UNCHANGED <<searchVars, raceVars>>
    /\ UNCHANGED sumPrefix

\* lines 132-135: the temp file for the checksum, in os.TempDir()
CreateShaFile ==
    /\ pc = "shafile"
    /\ \E tempErr \in BOOLEAN :
        IF tempErr
        THEN Fatal(out) /\ UNCHANGED fs
        ELSE /\ fs' = Put(fs, binarySHAFile, File(<<>>))
             /\ pc' = "downloadsha"
             /\ UNCHANGED <<result, out>>
    /\ UNCHANGED <<opts, host, exeInCwd, feedResp, versions, nextVersion,
                   assetSuffix, binResp, shaResp, sumsEqual, requests, renames>>
    /\ UNCHANGED <<searchVars, raceVars>>
    /\ UNCHANGED sumPrefix

\* lines 137-140: downloadFile(binaryFileUrl+".sha256", binarySHAFile)
DownloadChecksum ==
    /\ pc = "downloadsha"
    /\ \E r \in DownloadResponses(ShaBodies) :
        /\ shaResp' = r
        /\ requests' = Append(requests, "checksum")
        /\ fs' = Put(fs, binarySHAFile, File(r.body))
        /\ IF downloadFileBlocks(r)
           THEN pc' = "blocked" /\ UNCHANGED <<result, out>>
           ELSE IF downloadFile(r)
           THEN Fatal(out)
           ELSE pc' = "verify" /\ UNCHANGED <<result, out>>
    /\ UNCHANGED <<opts, host, exeInCwd, feedResp, versions, nextVersion,
                   assetSuffix, binResp, sumsEqual, renames>>
    /\ UNCHANGED <<searchVars, raceVars>>
    /\ UNCHANGED sumPrefix

\* lines 142-157: read both files back, compare, print
Verify ==
    /\ pc = "verify"
    /\ \E readErr \in BOOLEAN :
        LET binaryFileContent == Lookup(fs, binaryFilePath).data
            downloadedSum == Lookup(fs, binarySHAFile).data
        IN IF readErr
           THEN Fatal(out) /\ UNCHANGED <<sumsEqual, sumPrefix>>
           ELSE IF SliceOutOfRange(downloadedSum)
           THEN Panic(out) /\ UNCHANGED <<sumsEqual, sumPrefix>>
           ELSE /\ sumPrefix' = SlicePrefix(downloadedSum)
                /\ sumsEqual' = IF SumsDiffer(binaryFileContent, downloadedSum)
                                THEN "differ" ELSE "equal"
                /\ out' = (IF SumsDiffer(binaryFileContent, downloadedSum)
                           THEN Append(out, "Sha256 hashes are not identically")
                           ELSE out)
                          \o <<"Sha256 hashes identically. Replace current binary with new update">>
                /\ pc' = "backup"
                /\ UNCHANGED result
    /\ UNCHANGED <<opts, host, exeInCwd, fs, feedResp, versions, nextVersion,
                   assetSuffix, binResp, shaResp, requests, renames>>
    /\ UNCHANGED <<searchVars, raceVars>>

RenameCall(op, from, to, fault, r) ==
    [op |-> op, from |-> from, to |-> to, fault |-> fault, err |-> r.err]

\* lines 159-163: os.Rename(currentBinaryPath, currentBinaryPath+"_old")
BackupRename ==
    /\ pc = "backup"
    /\ \E fault \in BOOLEAN :
        LET to == AddSuffix(currentBinaryPath, "_old")
            r == Rename(fs, currentBinaryPath, to, fault)
        IN /\ renames' = Append(renames, RenameCall("backup", currentBinaryPath, to, fault, r))
           /\ fs' = r.fs
           /\ IF r.err # ""
              THEN Fatal(out)
              ELSE pc' = "place" /\ UNCHANGED <<result, out>>
    /\ UNCHANGED <<opts, host, exeInCwd, feedResp, versions, nextVersion,
                   assetSuffix, binResp, shaResp, sumsEqual, requests>>
    /\ UNCHANGED <<searchVars, raceVars>>
    /\ UNCHANGED sumPrefix

\* lines 165-171: os.Rename(binaryFilePath.Name(), currentBinaryPath+"_tmp")
PlaceRename ==
    /\ pc = "place"
    /\ \E fault \in BOOLEAN :
        LET to == AddSuffix(currentBinaryPath, "_tmp")
            r == Rename(fs, binaryFilePath, to, fault)
            o == Append(out, "Move downdloaded file")
        IN /\ renames' = Append(renames, RenameCall("place", binaryFilePath, to, fault, r))
           /\ fs' = r.fs
           /\ IF r.err # ""
              THEN Fatal(o)
              ELSE /\ pc' = "done"
                   /\ result' = "updated"
                   /\ out' = o
    /\ UNCHANGED <<opts, host, exeInCwd, feedResp, versions, nextVersion,
                   assetSuffix, binResp, shaResp, sumsEqual, requests>>
    /\ UNCHANGED <<searchVars, raceVars>>
    /\ UNCHANGED sumPrefix

Next ==
    \/ RequestFeed
    \/ CheckVersion
    \/ ResolveAsset
    \/ CreateBinaryFile
    \/ DownloadBinary
    \/ CreateShaFile
    \/ DownloadChecksum
    \/ Verify
    \/ BackupRename
    \/ PlaceRename

Spec == Init /\ [][Next]_vars

\* the run is a single foreground process: it takes its next step whenever
\* it has one
FairSpec == Spec /\ WF_vars(Next)

TypeOK ==
    /\ pc \in {"idle", "start", "version", "match", "tempfile", "download", "shafile",
               "downloadsha", "verify", "backup", "place", "done", "exit", "blocked"}
    /\ result \in {"running", "fatal", "panic", "current", "updated"}

(***************************************************************************)
(* Vocabulary of the properties.                                           *)
(***************************************************************************)
Range(s) == {s[i] : i \in DOMAIN s}

currentVersion == NewVersion(version).ver

Terminated == pc \in {"exit", "done"}
Failed == result \in {"fatal", "panic"}

\* the version check of line 104 has been made, and what it decided
VersionChecked == nextVersion # NoVersion
PastVersionCheck == VersionChecked /\ result # "current"

\* the table of supported platforms and their asset suffixes
SupportedTable ==
    {<<Platform("darwin", "arm64"), "darwin-aarch64">>,
     <<Platform("darwin", "amd64"), "darwin-x86_64">>,
     <<Platform("linux", "amd64"), "linux-x86_64">>,
     <<Platform("linux", "arm64"), "linux-aarch64">>,
     <<Platform("linux", "s390x"), "linux-s390x">>,
     <<Platform("linux", "arm/v6"), "linux-armv6">>,
     <<Platform("linux", "arm/v7"), "linux-armv7">>,
     <<Platform("windows", "amd64"), "windows-x86_64">>}
SupportedPlatforms == {e[1] : e \in SupportedTable}
DocumentedSuffix(h) == (CHOOSE e \in SupportedTable : e[1] = h)[2]

DownloadRequests == {"binary", "checksum"}
NoDownloadRequest == Range(requests) \cap DownloadRequests = {}
NoTempFile == ~Exists(fs, binaryFilePath) /\ ~Exists(fs, binarySHAFile)
FilesystemUntouched == fs = InitFs(exeInCwd) /\ renames = <<>>
ExecutableUntouched == Lookup(fs, ExePath) = File(OldBinary)

RenameDone(op) == \E i \in DOMAIN renames : renames[i].op = op /\ renames[i].err = ""
RenameTried(op) == \E i \in DOMAIN renames : renames[i].op = op

\* a download that did not bring a success response
DownloadFailed(r) == r.kind # "none" /\ ~(r.kind = "response" /\ r.status = 200)
DownloadSucceeded(r) == r.kind = "response" /\ r.status = 200

(***************************************************************************)
(* C1: a digest mismatch is fatal: when the hex SHA-256 of the downloaded   *)
(* binary differs from the first 64 characters of the checksum file, no     *)
(* rename is executed, and the run ends as failed with the executable       *)
(* untouched.                                                               *)
(***************************************************************************)
C1_MismatchIsFatal ==
    sumsEqual = "differ" =>
        /\ renames = <<>>
        /\ Terminated => (result = "fatal" /\ ExecutableUntouched)

(***************************************************************************)
(* C2: the run goes past the version check iff the candidate is greater    *)
(* than the current version; a candidate that is equal or lesser ends the  *)
(* run as "already installed" with no update attempted.                    *)
(***************************************************************************)
C2_UpdateIffGreater ==
    VersionChecked =>
        /\ PastVersionCheck <=> GreaterThan(nextVersion, currentVersion)
        /\ ~GreaterThan(nextVersion, currentVersion) =>
              (result = "current" /\ NoDownloadRequest /\ FilesystemUntouched)

(***************************************************************************)
(* C3: on each of the eight platforms of the supported table,              *)
(* matchArchitecture returns the documented suffix and no error.           *)
(***************************************************************************)
C3_SupportedTable ==
    (pc = "match" /\ host \in SupportedPlatforms) =>
        matchArchitecture(host) = [err |-> FALSE, suffix |-> DocumentedSuffix(host)]

(***************************************************************************)
(* C4: asset resolution fails closed: on a platform outside the supported  *)
(* table matchArchitecture returns an error and no suffix, and a run that  *)
(* gets to asset resolution there ends as failed, having requested no      *)
(* download and created no temp file.                                      *)
(***************************************************************************)
C4_FailsClosed ==
    host \notin SupportedPlatforms =>
        /\ matchArchitecture(host) = [err |-> TRUE, suffix |-> ""]
        /\ assetSuffix = ""
        /\ NoDownloadRequest
        /\ NoTempFile
        /\ (PastVersionCheck /\ pc # "match") => (pc = "exit" /\ result = "fatal")

\* a run on an unsupported platform has been stopped at asset resolution
C4_Witness ==
    /\ host = Platform("plan9", "amd64")
    /\ PastVersionCheck
    /\ pc = "exit"
    /\ result = "fatal"
    /\ requests = <<"feed">>

(***************************************************************************)
(* C5: a run that fails after the backup rename succeeded restores the     *)
(* original from <path>_old: it never ends with the original path missing  *)
(* while the backup exists.                                                *)
(***************************************************************************)
C5_RollbackOnFailure ==
    (Terminated /\ Failed /\ RenameDone("backup")) =>
        /\ Exists(fs, currentBinaryPath)
        /\ ExecutableUntouched

(***************************************************************************)
(* C6: with a newer first release, both downloads successful, a matching   *)
(* checksum and no rename failing for a reason of the filesystem's own,    *)
(* the run ends in success with the old executable file at <path>_old and  *)
(* the downloaded bytes at the executable's path or at <path>_tmp.         *)
(***************************************************************************)
C6_SuccessfulInstall ==
    (/\ Terminated
     /\ GreaterThan(nextVersion, currentVersion)
     /\ DownloadSucceeded(binResp) /\ DownloadSucceeded(shaResp)
     /\ sumsEqual = "equal"
     /\ \A i \in DOMAIN renames : ~renames[i].fault) =>
        /\ result = "updated"
        /\ Lookup(fs, AddSuffix(ExePath, "_old")) = File(OldBinary)
        /\ \/ Lookup(fs, ExePath) = File(binResp.body)
           \/ Lookup(fs, AddSuffix(ExePath, "_tmp")) = File(binResp.body)

(***************************************************************************)
(* C7: the installer goes Downloaded -> Verified -> Backed-up -> Installed:*)
(* the backup rename comes only after both downloads completed and         *)
(* verification passed, the placement rename only after a successful       *)
(* backup rename, no step is repeated, and a failure ends the run.         *)
(***************************************************************************)
C7_InstallerStateMachine ==
    /\ (pc \in {"backup", "place"} \/ renames # <<>>) =>
          (/\ binResp.kind = "response" /\ shaResp.kind = "response"
           /\ sumsEqual = "equal")
    /\ Len(renames) <= 2
    /\ Len(renames) >= 1 => renames[1].op = "backup"
    /\ Len(renames) = 2 => (renames[1].err = "" /\ renames[2].op = "place")
    /\ (\E i \in DOMAIN renames : renames[i].err # "") => (pc = "exit" /\ result = "fatal")

(***************************************************************************)
(* C8: a run whose current version equals the first tag of the feed is a   *)
(* no-op: it ends "already up to date", requests nothing but the feed and  *)
(* writes nothing to the filesystem.                                       *)
(***************************************************************************)
C8_SecondRunIsNoOp ==
    (VersionChecked /\ Compare(nextVersion, currentVersion) = 0) =>
        /\ pc = "done" /\ result = "current"
        /\ requests = <<"feed">>
        /\ FilesystemUntouched

(***************************************************************************)
(* C9: a failure of the release feed (transport error, non-success status, *)
(* malformed body) is fatal: the run ends as failed before any download    *)
(* request and before any change to the filesystem.                        *)
(***************************************************************************)
FeedFailed ==
    \/ feedResp.kind \in {"transport_error", "read_error"}
    \/ feedResp.kind = "response" /\ feedResp.status # 200
    \/ feedResp.kind = "response" /\ feedResp.body.json \in {"malformed", "object"}

C9_FeedFailureIsFatal ==
    FeedFailed =>
        /\ pc = "exit" /\ result = "fatal"
        /\ requests = <<"feed">>
        /\ FilesystemUntouched

(***************************************************************************)
(* C10: a download that meets a transport error or a non-success status    *)
(* fails, for the binary and for the checksum alike: the run ends as       *)
(* failed and no rename is executed.                                       *)
(***************************************************************************)
C10_DownloadFailureIsFatal ==
    (DownloadFailed(binResp) \/ DownloadFailed(shaResp)) =>
        /\ pc = "exit" /\ result = "fatal"
        /\ renames = <<>>

(***************************************************************************)
(* C11: a run that fails because of a download failure or a digest         *)
(* mismatch has removed the temp files it created: at its end neither the  *)
(* downloaded binary nor the checksum temp file is left on the filesystem. *)
(***************************************************************************)
\* no file the run created is left, wherever a rename may have taken it
TempFilesRemoved ==
    /\ ~Exists(fs, binaryFilePath)
    /\ ~Exists(fs, <<AddSuffix(currentBinaryPath, "_old")[1], binaryFilePath[2]>>)
    /\ ~Exists(fs, AddSuffix(currentBinaryPath, "_tmp"))
    /\ ~Exists(fs, binarySHAFile)

C11_TempFilesRemovedOnFailure ==
    (/\ Terminated /\ Failed
     /\ DownloadFailed(binResp) \/ DownloadFailed(shaResp) \/ sumsEqual = "differ") =>
        TempFilesRemoved

(***************************************************************************)
(* C12: with the unstable option false the release selected as the update  *)
(* target is never a pre-release, whatever the feed returns.               *)
(***************************************************************************)
C12_StableOnlyUnlessUnstable ==
    (~opts.unstable /\ PastVersionCheck) => nextVersion.pre = <<>>

(***************************************************************************)
(* C13: in quiet mode no progress message is printed: the output of a      *)
(* quiet run holds nothing but the report of a failure.                    *)
(***************************************************************************)
FailureReports == {"fatal", "panic"}

C13_QuietPrintsNoProgress ==
    opts.quiet => Range(out) \subseteq FailureReports

(***************************************************************************)
(* C19: for a feed that parses as an empty list of releases the run ends   *)
(* as a reported failure or as "no update", and the first element of the   *)
(* list is not read: no index out of range.                                *)
(***************************************************************************)
EmptyFeedList ==
    /\ feedResp.kind = "response"
    /\ feedResp.body.json \in {"array", "null"}
    /\ versions = <<>>

C19_EmptyFeedHandled ==
    (EmptyFeedList /\ pc \notin {"start", "version"}) =>
        /\ Terminated
        /\ result \in {"fatal", "current"}

(***************************************************************************)
(* C14: every network call returns after a response or a bounded timeout,  *)
(* so every run eventually reaches a terminal result, also when the server *)
(* never answers.                                                          *)
(***************************************************************************)
C14_EveryRunTerminates == <>Terminated

(***************************************************************************)
(* C15: verification round trip: a checksum file whose first 64 characters *)
(* are the lowercase-hex SHA-256 of the downloaded content is reported as  *)
(* a match whatever follows the 64th character; when the digest is that of *)
(* a content differing in one byte, a mismatch is reported.                *)
(***************************************************************************)
DiffersInOneByte(a, b) ==
    /\ Len(a) = Len(b)
    /\ Cardinality({i \in DOMAIN a : a[i] # b[i]}) = 1

StartsWithSumOf(sum, c) == Len(sum) >= 64 /\ SubSeq(sum, 1, 64) = HexSum(c)

MismatchReported == "Sha256 hashes are not identically" \in Range(out)

C15_VerificationRoundTrip ==
    sumsEqual # "unknown" =>
        /\ StartsWithSumOf(shaResp.body, binResp.body) =>
              (sumsEqual = "equal" /\ ~MismatchReported)
        /\ \A c \in BinBodies :
              (DiffersInOneByte(c, binResp.body) /\ StartsWithSumOf(shaResp.body, c)) =>
                  (sumsEqual = "differ" /\ MismatchReported)

\* a one-byte binary was verified against a checksum file with a trailer
C15_Witness ==
    /\ sumsEqual = "equal"
    /\ Len(binResp.body) = 1
    /\ Len(shaResp.body) > 64
    /\ StartsWithSumOf(shaResp.body, binResp.body)

\* a one-byte binary was verified against the digest of another byte
C15_FlipReached ==
    /\ sumsEqual = "differ"
    /\ \E c \in BinBodies :
          DiffersInOneByte(c, binResp.body) /\ StartsWithSumOf(shaResp.body, c)

(***************************************************************************)
(* C16: the pipeline is strictly sequential, with no retry: the HTTP       *)
(* requests come in the order feed, binary, checksum, each at most once,   *)
(* and a stage starts only after the stage before it succeeded.            *)
(***************************************************************************)
RequestOrder == <<"feed", "binary", "checksum">>

IsPrefix(s, t) == Len(s) <= Len(t) /\ s = SubSeq(t, 1, Len(s))

\* the requests made when the run stands at a position
RequestsMadeAt(p) ==
    IF p = "start" THEN {0}
    ELSE IF p \in {"version", "match", "tempfile", "download"} THEN {1}
    ELSE IF p \in {"shafile", "downloadsha"} THEN {2}
    ELSE IF p \in {"verify", "backup", "place"} THEN {3}
    ELSE 1..3

\* requests in order, none repeated, none out of place
RequestsInOrder ==
    /\ IsPrefix(requests, RequestOrder)
    /\ Len(requests) \in RequestsMadeAt(pc)

FeedSucceeded == feedResp.kind = "response" /\ feedResp.status = 200

C16_SequentialPipeline ==
    /\ RequestsInOrder
    /\ "binary" \in Range(requests) => (FeedSucceeded /\ PastVersionCheck /\ assetSuffix # "")
    /\ "checksum" \in Range(requests) => DownloadSucceeded(binResp)
    /\ sumsEqual # "unknown" => DownloadSucceeded(shaResp)

(***************************************************************************)
(* C20: for a checksum file of any length, also an empty one or one        *)
(* shorter than 64 bytes, the comparison has a defined outcome (mismatch)  *)
(* and does not read past the end of the contents: the 64-character prefix *)
(* is taken only when the contents hold at least 64 characters.            *)
(***************************************************************************)
ChecksumRead == shaResp.kind = "response" /\ (sumsEqual # "unknown" \/ result = "panic")

C20_ShortChecksumHandled ==
    ChecksumRead =>
        /\ result # "panic"
        /\ Len(shaResp.body) < 64 => sumsEqual = "differ"
        /\ sumPrefix.upto <= Len(shaResp.body)

(***************************************************************************)
(* searchAssets (lines 254-262) and searchAssetUrl (lines 173-180).        *)
(***************************************************************************)
MaxAssets == 2     \* an asset list has at most MaxAssets entries

\* AssetsResponse (lines 47-51)
AssetsResponse(name, url) == [Name |-> name, Url |-> url]

AssetNames == {"docker-compose-linux-x86_64", "docker-compose-darwin-aarch64"}
AssetUrls == {"https://api.github.com/assets/1", "https://api.github.com/assets/2"}
Needles == AssetNames \cup {"docker-compose-linux-s390x"}

AssetLists ==
    SeqsUpTo({AssetsResponse(n, u) : n \in AssetNames, u \in AssetUrls}, MaxAssets)

\* the loop of searchAssets from index i (counted from 0) on
RECURSIVE searchAssetsFrom(_, _, _)
searchAssetsFrom(as, n, i) ==
    IF i >= Len(as) THEN [index |-> 0, err |-> TRUE]
    ELSE IF as[i + 1].Name = n THEN [index |-> i, err |-> FALSE]
    ELSE searchAssetsFrom(as, n, i + 1)

searchAssets(as, n) == searchAssetsFrom(as, n, 0)

\* searchAssetUrl: the element is indexed before the error is looked at
searchAssetUrl(as, s) ==
    LET r == searchAssets(as, s)
    IN IF r.index >= Len(as)
       THEN [fn |-> "searchAssetUrl", outcome |-> "panic", index |-> r.index, url |-> ""]
       ELSE IF r.err
       THEN [fn |-> "searchAssetUrl", outcome |-> "fatal", index |-> r.index, url |-> ""]
       ELSE [fn |-> "searchAssetUrl", outcome |-> "returned", index |-> r.index,
             url |-> as[r.index + 1].Url]

\* no run of runSelfUpdate is under way
IdleRun ==
    /\ pc = "idle"
    /\ result = "running"
    /\ opts = [unstable |-> FALSE, quiet |-> FALSE]
    /\ host = Platform("linux", "amd64")
    /\ feedResp = NoFeedResponse
    /\ versions = <<>>
    /\ nextVersion = NoVersion
    /\ assetSuffix = ""
    /\ binResp = NoResponse
    /\ shaResp = NoResponse
    /\ sumsEqual = "unknown"
    /\ requests = <<>>
    /\ renames = <<>>
    /\ out = <<>>
    /\ sumPrefix = NoPrefix

SearchInit ==
    /\ IdleRun
    /\ exeInCwd = FALSE
    /\ fs = InitFs(FALSE)
    /\ assets \in AssetLists
    /\ needle \in Needles
    /\ call = NoCall
    /\ runs = <<>>
    /\ events = <<>>

CallSearchAssets ==
    /\ call = NoCall
    /\ LET r == searchAssets(assets, needle)
       IN call' = [fn |-> "searchAssets",
                   outcome |-> IF r.err THEN "error" ELSE "returned",
                   index |-> r.index, url |-> ""]
    /\ UNCHANGED <<runVars, exeInCwd, fs, assets, needle, raceVars>>

CallSearchAssetUrl ==
    /\ call = NoCall
    /\ call' = searchAssetUrl(assets, needle)
    /\ UNCHANGED <<runVars, exeInCwd, fs, assets, needle, raceVars>>

SearchNext == CallSearchAssets \/ CallSearchAssetUrl

SearchSpec == SearchInit /\ [][SearchNext]_vars

(***************************************************************************)
(* C17: searchAssets returns the index of the first asset whose Name is    *)
(* the needle, and an error when there is none; searchAssetUrl returns the *)
(* Url of that asset, and when there is none, the empty list included, it  *)
(* fails with the not-found error and returns no Url.                      *)
(***************************************************************************)
Matches == {i \in DOMAIN assets : assets[i].Name = needle}
FirstMatch == CHOOSE i \in Matches : \A j \in Matches : i <= j

C17_AssetSearch ==
    /\ call.fn = "searchAssets" =>
          IF Matches # {}
          THEN call.outcome = "returned" /\ call.index = FirstMatch - 1
          ELSE call.outcome = "error"
    /\ call.fn = "searchAssetUrl" =>
          IF Matches # {}
          THEN call.outcome = "returned" /\ call.url = assets[FirstMatch].Url
          ELSE call.outcome = "fatal" /\ call.url = ""

(***************************************************************************)
(* Two invocations of the command in the same working directory, each      *)
(* past its downloads and its comparison, about to replace the binary      *)
(* (lines 159-170).  Nothing in runSelfUpdate takes a lock.                *)
(***************************************************************************)
Runs == {1, 2}

\* the temp file of each invocation (line 122: TempFile picks a fresh name)
RunFile(r) == IF r = 1 THEN binaryFilePath ELSE <<"cwd", "docker-compose-2">>

RaceFs(inCwd, b1, b2) ==
    [InitFs(inCwd) EXCEPT
        !["cwd"].entries = @ \cup {Entry(RunFile(1)[2], b1), Entry(RunFile(2)[2], b2)},
        !["tmp/sha"] = File(HexSum(b1) \o Trailer)]

RaceInit ==
    /\ IdleRun
    /\ exeInCwd \in BOOLEAN
    /\ \E b1 \in BinBodies, b2 \in BinBodies : fs = RaceFs(exeInCwd, b1, b2)
    /\ assets = <<>>
    /\ needle = ""
    /\ call = NoCall
    /\ runs = [r \in Runs |-> [pc |-> "backup", result |-> "running"]]
    /\ events = <<>>

RaceEvent(r, op, res) == [run |-> r, op |-> op, err |-> res.err]

\* lines 159-163 in invocation r
RaceBackupRename ==
    \E r \in Runs, fault \in BOOLEAN :
        LET res == Rename(fs, currentBinaryPath, AddSuffix(currentBinaryPath, "_old"), fault)
        IN /\ runs[r].pc = "backup"
           /\ events' = Append(events, RaceEvent(r, "backup", res))
           /\ fs' = res.fs
           /\ runs' = [runs EXCEPT ![r] =
                         IF res.err # "" THEN [pc |-> "exit", result |-> "fatal"]
                         ELSE [pc |-> "place", result |-> "running"]]
           /\ UNCHANGED <<runVars, exeInCwd, searchVars>>

\* lines 165-171 in invocation r
RacePlaceRename ==
    \E r \in Runs, fault \in BOOLEAN :
        LET res == Rename(fs, RunFile(r), AddSuffix(currentBinaryPath, "_tmp"), fault)
        IN /\ runs[r].pc = "place"
           /\ events' = Append(events, RaceEvent(r, "place", res))
           /\ fs' = res.fs
           /\ runs' = [runs EXCEPT ![r] =
                         IF res.err # "" THEN [pc |-> "exit", result |-> "fatal"]
                         ELSE [pc |-> "done", result |-> "updated"]]
           /\ UNCHANGED <<runVars, exeInCwd, searchVars>>

RaceNext == RaceBackupRename \/ RacePlaceRename

RaceSpec == RaceInit /\ [][RaceNext]_vars

(***************************************************************************)
(* C18: the backup/install sequences of two concurrent invocations are     *)
(* mutually exclusive: no step of one lies between the backup and the      *)
(* placement step of the other, and <path>_old holds the original of the   *)
(* first invocation that backed up.                                        *)
(***************************************************************************)
\* invocation r stands between its backup and its placement step
InSequence(r) == runs # <<>> /\ runs[r].pc = "place"

\* the original is what the first successful backup moved to <path>_old
BackupHoldsOriginal ==
    LET old == Lookup(fs, AddSuffix(currentBinaryPath, "_old"))
    IN (\E i \in DOMAIN events : events[i].op = "backup" /\ events[i].err = "") =>
          /\ old.kind = "dir"
          /\ exeInCwd => Entry(ExeName, OldBinary) \in old.entries

C18_InstallSequencesExclusive ==
    /\ \A i \in DOMAIN events, j \in DOMAIN events, k \in DOMAIN events :
          (/\ i < j /\ j < k
           /\ events[i].op = "backup" /\ events[k].op = "place"
           /\ events[i].run = events[k].run) => events[j].run = events[i].run
    /\ \A i \in DOMAIN events, j \in DOMAIN events :
          (/\ i < j
           /\ events[i].op = "backup" /\ events[i].err = ""
           /\ InSequence(events[i].run)) => events[j].run = events[i].run
    /\ BackupHoldsOriginal

====
